---- MODULE Spec2Model ----
(***************************************************************************)
(* State-machine model of modules/threat_modeling.py (class ThreatModeling)*)
(* of pattonant/autopen2.0: the asset classifier, the threat identifier,   *)
(* the risk scorer, the attack-surface summarizer and the exporter.        *)
(*                                                                         *)
(* Representation of Python values                                         *)
(*   - a dict is a function whose DOMAIN is its key set; a missing key is  *)
(*     a key outside the DOMAIN;                                           *)
(*   - a list is a sequence; a Python set is a TLA+ set;                   *)
(*   - a list made by list(set(...)) has the iteration order of the set,   *)
(*     which varies with the interpreter's hash seed: such a list is kept  *)
(*     as the bag of its elements, which is what every run agrees on;      *)
(*   - identifiers (asset names, descriptions, suggestions) are strings;   *)
(*   - texts the code lower-cases or searches (severity, impact, attack    *)
(*     vectors) are sequences of characters, one string per character; a   *)
(*     Chinese character is written as its pinyin syllable, so that        *)
(*     '注入' is <<"zhu","ru">> and substring search is computed;          *)
(*   - a float score is kept in fixed point, in units of 1/ScoreScale.     *)
(***************************************************************************)
EXTENDS Integers, Sequences, FiniteSets, Bags, TLC

VARIABLES
    assets,     \* self.assets : list of Asset
    threats,    \* self.threats : list of Threat
    results,    \* self.results : dict
    op,         \* the method that returned last ("init" before any call)
    ret,        \* the value that method returned
    file        \* the document export_results left at filepath

vars == <<assets, threats, results, op, ret, file>>

----------------------------------------------------------------------------
(* Bounds of the model                                                     *)

MaxAssets == 2      \* longest asset inventory explored
MaxThreats == 2     \* longest threat list explored

----------------------------------------------------------------------------
(* Generic helpers                                                         *)

Min(a, b) == IF a <= b THEN a ELSE b
Max(a, b) == IF a >= b THEN a ELSE b

Range(s) == { s[i] : i \in DOMAIN s }

\* Python: key in d
HasKey(d, k) == k \in DOMAIN d

\* Python: d.get(k, default)
Get(d, k, default) == IF k \in DOMAIN d THEN d[k] ELSE default

\* a dict literal {k: v, ...} as a function on its key set
Dict(r) == [k \in DOMAIN r |-> r[k]]

\* Python: d[k] = v
Put(d, k, v) == [x \in (DOMAIN d) \cup {k} |-> IF x = k THEN v ELSE d[x]]

\* Python: needle in haystack, for str operands (character sequences)
Contains(haystack, needle) ==
    \E i \in 0..(Len(haystack) - Len(needle)) :
        \A j \in 1..Len(needle) : haystack[i + j] = needle[j]

UpperChars == <<"A","B","C","D","E","F","G","H","I","J","K","L","M",
                "N","O","P","Q","R","S","T","U","V","W","X","Y","Z">>
LowerChars == <<"a","b","c","d","e","f","g","h","i","j","k","l","m",
                "n","o","p","q","r","s","t","u","v","w","x","y","z">>

LowerChar(c) ==
    IF \E i \in DOMAIN UpperChars : UpperChars[i] = c
    THEN LowerChars[CHOOSE i \in DOMAIN UpperChars : UpperChars[i] = c]
    ELSE c

\* Python: s.lower()
Lower(s) == [i \in DOMAIN s |-> LowerChar(s[i])]

RECURSIVE BagOfSeq(_)
\* the bag of the elements of a list
BagOfSeq(s) ==
    IF s = <<>> THEN EmptyBag ELSE BagOfSeq(Tail(s)) (+) SetToBag({Head(s)})

\* Python: list(set(xs)), for xs the bag of a list: each element once
ListOfSet(xs) == SetToBag(BagToSet(xs))

----------------------------------------------------------------------------
(* Enumerations and dataclasses                                            *)

\* class AssetType(Enum): member name -> .value
AssetTypeValue ==
    [ WEB_SERVER |-> "web_server", DATABASE |-> "database",
      FILE_SERVER |-> "file_server", MAIL_SERVER |-> "mail_server",
      DOMAIN_CONTROLLER |-> "domain_controller",
      NETWORK_DEVICE |-> "network_device" ]

\* class ThreatLevel(Enum): member name -> .value
ThreatLevelValue ==
    [ CRITICAL |-> "critical", HIGH |-> "high",
      MEDIUM |-> "medium", LOW |-> "low" ]

\* mutant: every asset is recorded as not exposed
Asset_unexposed(name, type, value, exposed, services, description) ==
    [ name |-> name, type |-> type, value |-> value, exposed |-> FALSE,
      services |-> services, description |-> description ]

\* @dataclass Asset
Asset(name, type, value, exposed, services, description) ==
    [ name |-> name, type |-> type, value |-> value, exposed |-> exposed,
      services |-> services, description |-> description ]

\* @dataclass Threat
Threat(name, level, likelihood, impact, description, affected_assets, attack_vectors) ==
    [ name |-> name, level |-> level, likelihood |-> likelihood,
      impact |-> impact, description |-> description,
      affected_assets |-> affected_assets, attack_vectors |-> attack_vectors ]

_asset_to_dict(asset) ==
    [ name |-> asset.name, type |-> AssetTypeValue[asset.type],
      value |-> asset.value, exposed |-> asset.exposed,
      services |-> asset.services, description |-> asset.description ]

_threat_to_dict(threat) ==
    [ name |-> threat.name, level |-> ThreatLevelValue[threat.level],
      likelihood |-> threat.likelihood, impact |-> threat.impact,
      description |-> threat.description,
      affected_assets |-> threat.affected_assets,
      attack_vectors |-> threat.attack_vectors ]

----------------------------------------------------------------------------
(* Inputs of analyze_assets: scan_results['port_scan']                     *)
(*                                                                         *)
(* The nested mapping host -> 'protocols' -> proto -> port -> info is      *)
(* given as the sequence of (host, proto, port, info) tuples in the order  *)
(* the three nested loops visit them; a dict has no duplicate keys, so the *)
(* (host, proto, port) of one input are distinct.                          *)

\* the (host, proto, port) keys of an input, in the order the dicts hold
\* them: one host with the LDAP port open on two protocols
PortKeys ==
    << [host |-> "h1", proto |-> "tcp", port |-> 389],
       [host |-> "h1", proto |-> "udp", port |-> 389] >>

\* info dicts: 'service' may be missing (a malformed record)
HttpInfo == [service |-> "http", product |-> "nginx", version |-> "1.18"]
SshInfo == [service |-> "ssh"]
NoServiceInfo == [product |-> "slapd"]

Infos == { HttpInfo, SshInfo, NoServiceInfo }

PortRecord(key, info) ==
    [host |-> key.host, proto |-> key.proto, port |-> key.port, info |-> info]

\* the inputs over a list of keys: the i-th record is for the i-th key
PortScansOver(keys, infos) ==
    UNION { { [i \in 1..n |-> PortRecord(keys[i], f[i])] : f \in [1..n -> infos] }
            : n \in 0..Len(keys) }

PortScans == PortScansOver(PortKeys, Infos)

\* scan_results as analyze_assets reads it: with or without 'port_scan'
AssetScanResults ==
    { <<>> } \cup { [port_scan |-> recs] : recs \in PortScans }

(* The inputs of the classification rules alone: a web port on one host    *)
(* and the LDAP port on another, in either order, each carrying a service  *)
(* of every rule, a service of no rule, or no service name at all.         *)
ClassifyKeys ==
    << [host |-> "h1", proto |-> "tcp", port |-> 80],
       [host |-> "dc1", proto |-> "tcp", port |-> 389] >>

ClassifyServices ==
    {"http", "https", "mysql", "mongodb", "ldap", "kerberos", "ssh"}

ClassifyInfos ==
    { [service |-> svc] : svc \in ClassifyServices } \cup { NoServiceInfo }

ClassifyScanResults ==
    { [port_scan |-> recs] :
        recs \in PortScansOver(ClassifyKeys, ClassifyInfos)
                 \cup PortScansOver(<<ClassifyKeys[2], ClassifyKeys[1]>>,
                                    ClassifyInfos) }

----------------------------------------------------------------------------
(* analyze_assets                                                          *)

WebServices == {"http", "https"}
DatabaseServices == {"mysql", "mssql", "postgresql", "mongodb"}
DirectoryServices == {"ldap", "kerberos"}
LdapPort == 389

\* the body of the innermost loop for one (host, port, info): the assets it
\* appends, or raised = TRUE when info['service'] raises KeyError
ClassifyRecord(host, port, info) ==
    IF ~HasKey(info, "service")
    THEN [raised |-> TRUE, new |-> <<>>]
    ELSE IF info["service"] \in WebServices
    THEN [raised |-> FALSE, new |-> << Asset(
             "Web Server (" \o host \o ":" \o ToString(port) \o ")",
             "WEB_SERVER", 8, TRUE, <<info["service"]>>,
             "Web server running " \o Get(info, "product", "") \o " "
                 \o Get(info, "version", "")) >>]
    ELSE IF info["service"] \in DatabaseServices
    THEN [raised |-> FALSE, new |-> << Asset(
             "Database Server (" \o host \o ":" \o ToString(port) \o ")",
             "DATABASE", 9, TRUE, <<info["service"]>>,
             "Database server running " \o Get(info, "product", "") \o " "
                 \o Get(info, "version", "")) >>]
    ELSE IF port = LdapPort \/ info["service"] \in DirectoryServices
    THEN [raised |-> FALSE, new |-> << Asset(
             "Domain Controller (" \o host \o ")",
             "DOMAIN_CONTROLLER", 10, TRUE, <<info["service"]>>,
             "Domain controller") >>]
    ELSE [raised |-> FALSE, new |-> <<>>]

RECURSIVE ClassifyAll(_)
\* the three nested loops over the records, in order, up to the first
\* exception: the assets appended so far and whether an exception escaped
ClassifyAll(recs) ==
    IF recs = <<>> THEN [raised |-> FALSE, new |-> <<>>]
    ELSE LET r == ClassifyRecord(Head(recs).host, Head(recs).port, Head(recs).info)
         IN  IF r.raised THEN r
             ELSE LET rest == ClassifyAll(Tail(recs))
                  IN  [raised |-> rest.raised, new |-> r.new \o rest.new]

\* the appends of the try block of analyze_assets
AnalyzeRun(scan_results) ==
    IF HasKey(scan_results, "port_scan")
    THEN ClassifyAll(scan_results["port_scan"])
    ELSE [raised |-> FALSE, new |-> <<>>]

\* mutant: the exception of the try block is handed on to the caller
AnalyzeReturn_propagating(as, scan_results) ==
    LET run == AnalyzeRun(scan_results)
    IN  IF run.raised THEN << [raised |-> TRUE] >> ELSE as \o run.new

\* what analyze_assets returns: self.assets, or [] from the except block
AnalyzeReturn(as, scan_results) ==
    LET run == AnalyzeRun(scan_results)
    IN  IF run.raised THEN <<>> ELSE as \o run.new

\* mutant: the inventory is rebuilt from the batch instead of extended
analyze_assets_rebuilding(scan_results) ==
    LET run == AnalyzeRun(scan_results)
        now == run.new
    IN  /\ Len(now) <= MaxAssets
        /\ assets' = now
        /\ results' = IF run.raised THEN results
                      ELSE Put(results, "assets",
                               [i \in DOMAIN now |-> _asset_to_dict(now[i])])
        /\ ret' = AnalyzeReturn(assets, scan_results)
        /\ op' = "analyze_assets"
        /\ UNCHANGED <<threats, file>>

\* mutant: a failing call leaves the inventory as it found it
analyze_assets_atomic(scan_results) ==
    LET run == AnalyzeRun(scan_results)
        now == IF run.raised THEN assets ELSE assets \o run.new
    IN  /\ Len(assets \o run.new) <= MaxAssets
        /\ assets' = now
        /\ results' = IF run.raised THEN results
                      ELSE Put(results, "assets",
                               [i \in DOMAIN now |-> _asset_to_dict(now[i])])
        /\ ret' = AnalyzeReturn(assets, scan_results)
        /\ op' = "analyze_assets"
        /\ UNCHANGED <<threats, file>>

\* mutant: the new assets are linked to the threats that already exist
analyze_assets_relinking(scan_results) ==
    LET run == AnalyzeRun(scan_results)
        now == assets \o run.new
    IN  /\ Len(now) <= MaxAssets
        /\ assets' = now
        /\ threats' = [k \in DOMAIN threats |->
                          [threats[k] EXCEPT !.affected_assets =
                              @ \o [i \in DOMAIN run.new |-> run.new[i].name]]]
        /\ results' = IF run.raised THEN results
                      ELSE Put(results, "assets",
                               [i \in DOMAIN now |-> _asset_to_dict(now[i])])
        /\ ret' = AnalyzeReturn(assets, scan_results)
        /\ op' = "analyze_assets"
        /\ UNCHANGED file

analyze_assets(scan_results) ==
    LET run == AnalyzeRun(scan_results)
        now == assets \o run.new
    IN  /\ Len(now) <= MaxAssets
        /\ assets' = now
        /\ results' = IF run.raised THEN results
                      ELSE Put(results, "assets",
                               [i \in DOMAIN now |-> _asset_to_dict(now[i])])
        /\ ret' = AnalyzeReturn(assets, scan_results)
        /\ op' = "analyze_assets"
        /\ UNCHANGED <<threats, file>>

----------------------------------------------------------------------------
(* Inputs of identify_threats: scan_results['vuln_scan'] and              *)
(* scan_results['waf_bypass']                                              *)

\* a Python str value / a value that is not a str (an int)
Str(chars) == [pytype |-> "str", chars |-> chars]
NotStr == [pytype |-> "int", chars |-> <<>>]

\* a findings value that is a dict / one that is not (a str)
Mapping(d) == [pytype |-> "dict", d |-> d]
NotMapping == [pytype |-> "str", d |-> <<>>]

\* attack-vector texts of the source, character by character
CommandInjection == <<"ming","ling","zhu","ru">>             \* '命令注入'
RemoteCodeExecution == <<"yuan","cheng","dai","ma","zhi","xing">> \* '远程代码执行'
SqlInjection == <<"S","Q","L","zhu","ru">>                   \* 'SQL注入'
DatabaseAttack == <<"shu","ju","ku","gong","ji">>            \* '数据库攻击'
CrossSiteScripting == <<"kua","zhan","jiao","ben">>          \* '跨站脚本'
ClientSideAttack == <<"ke","hu","duan","gong","ji">>         \* '客户端攻击'
WafBypass == <<"W","A","F","rao","guo">>                     \* 'WAF绕过'
InjectionAttack == <<"zhu","ru","gong","ji">>                \* '注入攻击'

\* scenario 3 of the specification: critical, rce, easy
CriticalRceFinding ==
    Mapping([vulnerable |-> TRUE,
             severity |-> Str(<<"C","r","i","t","i","c","a","l">>),
             type |-> "rce", difficulty |-> "easy"])
\* a severity outside the four levels, a type, an impact text and a method
InfoXssFinding ==
    Mapping([vulnerable |-> TRUE,
             severity |-> Str(<<"i","n","f","o">>),
             type |-> "xss",
             impact |-> Str(<<"U","s","e","r"," ","d","a","t","a">>),
             method |-> <<"P","O","S","T">>,
             details |-> "reflected input"])
NotVulnerableFinding == Mapping([vulnerable |-> FALSE])
\* malformed: the severity is not a str
BadSeverityFinding == Mapping([vulnerable |-> TRUE, severity |-> NotStr])

Findings ==
    { CriticalRceFinding, InfoXssFinding, NotVulnerableFinding,
      BadSeverityFinding, NotMapping }

ServiceTypes == <<"http">>

\* the tools of one service entry, in the order the dict holds them
ToolList == <<"nikto", "sqlmap">>

\* scan_results['vuln_scan'][service_type]: a dict tool -> findings, given
\* as its items in iteration order, or a value that is not a dict
ToolItems ==
    UNION { { [i \in 1..n |-> [tool |-> ToolList[i], findings |-> fs[i]]]
              : fs \in [1..n -> Findings] }
            : n \in 0..Len(ToolList) }

ToolResults ==
    { [isdict |-> FALSE, items |-> <<>>] }
    \cup { [isdict |-> TRUE, items |-> it] : it \in ToolItems }

\* scan_results['vuln_scan']: its items in iteration order
VulnScans ==
    { <<>> }
    \cup { << [service_type |-> ServiceTypes[1], results |-> r] >> : r \in ToolResults }

WafDetected == [waf_info |-> [detected |-> TRUE]]
WafNotDetected == [waf_info |-> [detected |-> FALSE]]

WafBypasses == { <<>>, WafNotDetected, WafDetected }

\* scan_results as identify_threats reads it
ThreatScanResults ==
    { <<>> }
    \cup { [vuln_scan |-> vs] : vs \in VulnScans }
    \cup { [waf_bypass |-> w] : w \in WafBypasses }
    \cup { [vuln_scan |-> vs, waf_bypass |-> w] : vs \in VulnScans, w \in WafBypasses }

\* one service entry of vuln_scan holding the given findings, tool by tool
VulnScanOf(fs) ==
    << [service_type |-> ServiceTypes[1],
        results |-> [isdict |-> TRUE,
                     items |-> [i \in DOMAIN fs |->
                                  [tool |-> ToolList[i], findings |-> fs[i]]]]] >>

(* The inputs of the likelihood and impact helpers alone: a vulnerable      *)
(* finding with every type and difficulty the helper distinguishes, one    *)
(* it does not, or none; and with impact texts for every adjustment, in    *)
(* lower and in mixed case.                                                *)
Absent == "<absent>"

\* the dict d, with d[k] = v unless v is Absent
WithOptional(d, k, v) == IF v = Absent THEN d ELSE Put(d, k, v)

TypeValues == {"rce", "sqli", "upload", "xss", "csrf", "lfi"}
DifficultyValues == {"easy", "hard", "medium"}

LikelihoodFindings ==
    { Mapping(WithOptional(WithOptional([vulnerable |-> TRUE], "type", t),
                           "difficulty", d)) :
        t \in TypeValues \cup {Absent}, d \in DifficultyValues \cup {Absent} }

ImpactTexts ==
    { <<"s","y","s","t","e","m">>,
      <<"r","o","o","t"," ","u","s","e","r">>,
      <<"u","s","e","r"," ","d","a","t","a">>,
      <<"c","o","n","f","i","d","e","n","t","i","a","l">>,
      <<"u","s","e","r">>,
      <<"o","u","t","a","g","e">>,
      <<"R","o","o","t">>,
      <<"U","s","e","r"," ","D","a","t","a">> }

ImpactFindings ==
    { Mapping([vulnerable |-> TRUE, impact |-> Str(txt)]) : txt \in ImpactTexts }

ScoringFindings == LikelihoodFindings \cup ImpactFindings

(* The inputs of affected_assets alone: one vulnerable finding under a     *)
(* label some asset runs, a label another asset runs, or a label no asset  *)
(* runs.                                                                   *)
ServiceLabels == {"http", "ssh", "ftp"}

\* one service entry of vuln_scan under the given label, tool by tool
VulnScanFor(service_type, fs) ==
    << [service_type |-> service_type,
        results |-> [isdict |-> TRUE,
                     items |-> [i \in DOMAIN fs |->
                                  [tool |-> ToolList[i], findings |-> fs[i]]]]] >>

(* The inputs of the mitigation suggestions alone: one exposed service of  *)
(* each kind, and high-risk findings whose vectors carry the injection     *)
(* theme, the cross-site theme, both themes in one vector, or neither.     *)
SuggestionAssetInputs ==
    { [port_scan |-> << PortRecord(ClassifyKeys[1], [service |-> svc]) >>] :
        svc \in {"http", "mysql", "mongodb", "ssh"} }

\* a method text with both themes: '跨站注入'
CrossSiteInjection == <<"kua","zhan","zhu","ru">>

HighSqliFinding ==
    Mapping([vulnerable |-> TRUE, severity |-> Str(<<"h","i","g","h">>),
             type |-> "sqli"])
HighXssFinding ==
    Mapping([vulnerable |-> TRUE, severity |-> Str(<<"h","i","g","h">>),
             type |-> "xss"])
HighBothThemesFinding ==
    Mapping([vulnerable |-> TRUE, severity |-> Str(<<"h","i","g","h">>),
             method |-> CrossSiteInjection])
HighPlainFinding ==
    Mapping([vulnerable |-> TRUE, severity |-> Str(<<"h","i","g","h">>),
             method |-> <<"G","E","T">>])

SuggestionFindings ==
    { HighSqliFinding, HighXssFinding, HighBothThemesFinding, HighPlainFinding }

(* The inputs of the whole-pipeline specification: a few of the inputs     *)
(* above, one per shape of a call (empty, well-formed, malformed first,    *)
(* malformed last, WAF detected).                                          *)
PipelineAssetInputs ==
    { <<>>,
      [port_scan |-> << PortRecord(PortKeys[1], HttpInfo) >>],
      [port_scan |-> << PortRecord(PortKeys[1], NoServiceInfo),
                        PortRecord(PortKeys[2], HttpInfo) >>],
      [port_scan |-> << PortRecord(PortKeys[1], HttpInfo),
                        PortRecord(PortKeys[2], NoServiceInfo) >>] }

PipelineThreatInputs ==
    { <<>>,
      [vuln_scan |-> VulnScanOf(<<InfoXssFinding>>)],
      [vuln_scan |-> VulnScanOf(<<NotMapping, InfoXssFinding>>)],
      [vuln_scan |-> VulnScanOf(<<InfoXssFinding, BadSeverityFinding>>)],
      [waf_bypass |-> WafDetected] }

----------------------------------------------------------------------------
(* identify_threats and its helpers                                        *)
(* A helper that can raise returns [raised, val].                          *)

Raise == [raised |-> TRUE, val |-> <<>>]
Return(v) == [raised |-> FALSE, val |-> v]

_determine_threat_level(finding) ==
    IF HasKey(finding, "severity")
    THEN IF finding["severity"].pytype # "str"
         THEN Raise     \* AttributeError: no attribute 'lower'
         ELSE LET severity == Lower(finding["severity"].chars)
              IN  IF severity = <<"c","r","i","t","i","c","a","l">>
                  THEN Return("CRITICAL")
                  ELSE IF severity = <<"h","i","g","h">>
                  THEN Return("HIGH")
                  ELSE IF severity = <<"m","e","d","i","u","m">>
                  THEN Return("MEDIUM")
                  ELSE Return("LOW")
    ELSE Return("MEDIUM")

BaseScore == 5

\* mutant: the difficulty is looked at only when the type adjusted nothing
_calculate_likelihood_exclusive(finding) ==
    LET byType ==
            IF HasKey(finding, "type")
            THEN IF finding["type"] \in {"rce", "sqli", "upload"} THEN 3
                 ELSE IF finding["type"] \in {"xss", "csrf"} THEN 2
                 ELSE 0
            ELSE 0
        byDifficulty ==
            IF byType = 0 /\ HasKey(finding, "difficulty")
            THEN IF finding["difficulty"] = "easy" THEN 2
                 ELSE IF finding["difficulty"] = "hard" THEN 0 - 2
                 ELSE 0
            ELSE 0
    IN  Max(1, Min(10, BaseScore + byType + byDifficulty))

_calculate_likelihood(finding) ==
    LET byType ==
            IF HasKey(finding, "type")
            THEN IF finding["type"] \in {"rce", "sqli", "upload"} THEN 3
                 ELSE IF finding["type"] \in {"xss", "csrf"} THEN 2
                 ELSE 0
            ELSE 0
        byDifficulty ==
            IF HasKey(finding, "difficulty")
            THEN IF finding["difficulty"] = "easy" THEN 2
                 ELSE IF finding["difficulty"] = "hard" THEN 0 - 2
                 ELSE 0
            ELSE 0
    IN  Max(1, Min(10, BaseScore + byType + byDifficulty))

\* mutant: the adjustments are tried in the opposite order
_calculate_impact_reversed(finding) ==
    IF HasKey(finding, "impact")
    THEN IF finding["impact"].pytype # "str"
         THEN Raise
         ELSE LET impact == Lower(finding["impact"].chars)
                  adj ==
                    IF Contains(impact, <<"u","s","e","r">>) THEN 2
                    ELSE IF Contains(impact, <<"d","a","t","a">>)
                            \/ Contains(impact, <<"c","o","n","f","i","d","e","n","t","i","a","l">>)
                    THEN 3
                    ELSE IF Contains(impact, <<"s","y","s","t","e","m">>)
                            \/ Contains(impact, <<"r","o","o","t">>) THEN 4
                    ELSE 0
              IN  Return(Max(1, Min(10, BaseScore + adj)))
    ELSE Return(Max(1, Min(10, BaseScore)))

_calculate_impact(finding) ==
    IF HasKey(finding, "impact")
    THEN IF finding["impact"].pytype # "str"
         THEN Raise     \* AttributeError: no attribute 'lower'
         ELSE LET impact == Lower(finding["impact"].chars)
                  adj ==
                    IF Contains(impact, <<"s","y","s","t","e","m">>)
                       \/ Contains(impact, <<"r","o","o","t">>) THEN 4
                    ELSE IF Contains(impact, <<"d","a","t","a">>)
                            \/ Contains(impact, <<"c","o","n","f","i","d","e","n","t","i","a","l">>)
                    THEN 3
                    ELSE IF Contains(impact, <<"u","s","e","r">>) THEN 2
                    ELSE 0
              IN  Return(Max(1, Min(10, BaseScore + adj)))
    ELSE Return(Max(1, Min(10, BaseScore)))

_identify_attack_vectors(finding) ==
    LET byType ==
            IF HasKey(finding, "type")
            THEN IF finding["type"] = "rce"
                 THEN <<CommandInjection, RemoteCodeExecution>>
                 ELSE IF finding["type"] = "sqli"
                 THEN <<SqlInjection, DatabaseAttack>>
                 ELSE IF finding["type"] = "xss"
                 THEN <<CrossSiteScripting, ClientSideAttack>>
                 ELSE <<>>
            ELSE <<>>
        byMethod ==
            IF HasKey(finding, "method") THEN <<finding["method"]>> ELSE <<>>
    IN  ListOfSet(BagOfSeq(byType \o byMethod))

\* [asset.name for asset in ...]
Names(as) == [i \in DOMAIN as |-> as[i].name]

\* mutant: the service label is listed instead of the asset names
AffectedByService_label(as, service_type) == <<service_type>>

\* mutant: every asset of the inventory is named, whatever it runs
AffectedByService_all(as, service_type) == Names(as)

\* [asset.name for asset in self.assets if service_type in asset.services]
AffectedByService(as, service_type) ==
    LET Runs(a) == service_type \in Range(a.services)
    IN  Names(SelectSeq(as, Runs))

\* [asset.name for asset in self.assets if asset.type == AssetType.WEB_SERVER]
WebServerNames(as) ==
    LET IsWeb(a) == a.type = "WEB_SERVER"
    IN  Names(SelectSeq(as, IsWeb))

\* the values the three helpers give for the finding dicts of the inputs
FindingDicts ==
    { x.d : x \in { y \in Findings \cup ScoringFindings \cup SuggestionFindings :
                       y.pytype = "dict" } }
LevelOf == [f \in FindingDicts |-> _determine_threat_level(f)]
LikelihoodOf == [f \in FindingDicts |-> _calculate_likelihood(f)]
ImpactOf == [f \in FindingDicts |-> _calculate_impact(f)]
VectorsOf == [f \in FindingDicts |-> _identify_attack_vectors(f)]

\* the body of the inner loop for one (service_type, tool, findings): the
\* threats it appends, or raised = TRUE when an exception escapes
ThreatOfFinding(as, service_type, findings) ==
    IF findings.pytype # "dict"
    THEN Raise          \* AttributeError: no attribute 'get'
    ELSE LET f == findings.d
             level == LevelOf[f]
             impact == ImpactOf[f]
         IN  IF ~Get(f, "vulnerable", FALSE) THEN Return(<<>>)
             ELSE IF level.raised \/ impact.raised THEN Raise
             ELSE Return(<< Threat(
                      "Vulnerability in " \o service_type,
                      level.val,
                      LikelihoodOf[f],
                      impact.val,
                      Get(f, "details", "unknown vulnerability"),
                      AffectedByService(as, service_type),
                      VectorsOf[f]) >>)

RECURSIVE ThreatsOfItems(_, _, _)
\* for tool, findings in results.items(), up to the first exception
ThreatsOfItems(as, service_type, items) ==
    IF items = <<>> THEN Return(<<>>)
    ELSE LET r == ThreatOfFinding(as, service_type, Head(items).findings)
         IN  IF r.raised THEN r
             ELSE LET rest == ThreatsOfItems(as, service_type, Tail(items))
                  IN  [raised |-> rest.raised, val |-> r.val \o rest.val]

RECURSIVE ThreatsOfVulnScan(_, _)
\* for service_type, results in scan_results['vuln_scan'].items(), up to
\* the first exception
ThreatsOfVulnScan(as, vs) ==
    IF vs = <<>> THEN Return(<<>>)
    ELSE LET r == IF Head(vs).results.isdict
                  THEN ThreatsOfItems(as, Head(vs).service_type,
                                      Head(vs).results.items)
                  ELSE Return(<<>>)
         IN  IF r.raised THEN r
             ELSE LET rest == ThreatsOfVulnScan(as, Tail(vs))
                  IN  [raised |-> rest.raised, val |-> r.val \o rest.val]

WafLikelihood == 7
WafImpact == 8

\* the WAF block of identify_threats
WafThreats(as, scan_results) ==
    IF HasKey(scan_results, "waf_bypass")
    THEN LET waf_info == Get(scan_results["waf_bypass"], "waf_info", <<>>)
         IN  IF Get(waf_info, "detected", FALSE)
             THEN << Threat("WAF Bypass Potential", "HIGH",
                            WafLikelihood, WafImpact,
                            "WAF may be bypassed",
                            WebServerNames(as),
                            BagOfSeq(<<WafBypass, InjectionAttack>>)) >>
             ELSE <<>>
    ELSE <<>>

\* the appends of the try block of identify_threats
IdentifyRun(as, scan_results) ==
    LET vuln == IF HasKey(scan_results, "vuln_scan")
                THEN ThreatsOfVulnScan(as, scan_results["vuln_scan"])
                ELSE Return(<<>>)
    IN  IF vuln.raised THEN vuln
        ELSE Return(vuln.val \o WafThreats(as, scan_results))

\* what identify_threats returns: self.threats, or [] from the except block
IdentifyReturn(as, ts, scan_results) ==
    LET run == IdentifyRun(as, scan_results)
    IN  IF run.raised THEN <<>> ELSE ts \o run.val

identify_threats(scan_results) ==
    LET run == IdentifyRun(assets, scan_results)
        now == threats \o run.val
    IN  /\ Len(now) <= MaxThreats
        /\ threats' = now
        /\ results' = IF run.raised THEN results
                      ELSE Put(results, "threats",
                               [i \in DOMAIN now |-> _threat_to_dict(now[i])])
        /\ ret' = IdentifyReturn(assets, threats, scan_results)
        /\ op' = "identify_threats"
        /\ UNCHANGED <<assets, file>>

----------------------------------------------------------------------------
(* calculate_risk_scores                                                   *)

\* scores are kept in units of 1/ScoreScale, so that 1.5 is 15
ScoreScale == 10

\* mutant: the exposure adjustment is left out
ExposureMultiplier_ignored(asset) == 10

\* exposure_multiplier = 1.5 if asset.exposed else 1.0
ExposureMultiplier(asset) == IF asset.exposed THEN 15 ELSE 10

\* [threat for threat in self.threats if asset.name in threat.affected_assets]
AffectingThreats(asset, ts) ==
    LET Affects(t) == asset.name \in Range(t.affected_assets)
    IN  SelectSeq(ts, Affects)

RECURSIVE SumLikelihoodImpact(_)
\* sum(threat.likelihood * threat.impact for threat in affecting_threats)
SumLikelihoodImpact(ts) ==
    IF ts = <<>> THEN 0
    ELSE Head(ts).likelihood * Head(ts).impact + SumLikelihoodImpact(Tail(ts))

\* mutant: a threat counts once for every time it lists the asset's name
ThreatScore_per_occurrence(asset, ts) ==
    SumLikelihoodImpact(
        [k \in DOMAIN ts |->
            [ts[k] EXCEPT !.likelihood =
                @ * Cardinality({ j \in DOMAIN ts[k].affected_assets :
                                    ts[k].affected_assets[j] = asset.name })]])

\* mutant: the threats naming an asset lower its score
ThreatScore_discounting(asset, ts) ==
    0 - SumLikelihoodImpact(AffectingThreats(asset, ts))

ThreatScore(asset, ts) ==
    LET affecting_threats == AffectingThreats(asset, ts)
    IN  IF affecting_threats # <<>> THEN SumLikelihoodImpact(affecting_threats) ELSE 0

\* final_score = (base_score + threat_score) * exposure_multiplier
FinalScore(asset, ts) ==
    (asset.value * 10 + ThreatScore(asset, ts)) * ExposureMultiplier(asset)

\* mutant: the cap is left out
CappedScore_uncapped(asset, ts) == FinalScore(asset, ts)

\* min(100, final_score)
CappedScore(asset, ts) == Min(100 * ScoreScale, FinalScore(asset, ts))

RECURSIVE RiskScores_by_type(_, _, _)
\* mutant: the scores are stored under the asset type
RiskScores_by_type(as, ts, d) ==
    IF as = <<>> THEN d
    ELSE RiskScores_by_type(Tail(as), ts,
                            Put(d, Head(as).type, CappedScore(Head(as), ts)))

RECURSIVE RiskScores(_, _, _)
\* the loop of calculate_risk_scores: risk_scores[asset.name] = ... for the
\* assets from position i on, starting from the dict d
RiskScores(as, ts, d) ==
    IF as = <<>> THEN d
    ELSE RiskScores(Tail(as), ts, Put(d, Head(as).name, CappedScore(Head(as), ts)))

\* mutant: each score is added onto the one stored by the call before
calculate_risk_scores_accumulating ==
    LET fresh == RiskScores(assets, threats, <<>>)
        old == Get(results, "risk_scores", <<>>)
        risk_scores == [n \in DOMAIN fresh |-> fresh[n] + Get(old, n, 0)]
    IN  /\ results' = Put(results, "risk_scores", risk_scores)
        /\ ret' = risk_scores
        /\ op' = "calculate_risk_scores"
        /\ UNCHANGED <<assets, threats, file>>

calculate_risk_scores ==
    LET risk_scores == RiskScores(assets, threats, <<>>)
    IN  /\ results' = Put(results, "risk_scores", risk_scores)
        /\ ret' = risk_scores
        /\ op' = "calculate_risk_scores"
        /\ UNCHANGED <<assets, threats, file>>

----------------------------------------------------------------------------
(* generate_attack_surface_report                                          *)

RECURSIVE Concat(_)
Concat(ss) == IF ss = <<>> THEN <<>> ELSE Head(ss) \o Concat(Tail(ss))

\* mutant: each exposed service is listed once
ExposedServices_deduplicated(as) ==
    LET svcs == UNION { Range(a.services) : a \in { x \in Range(as) : x.exposed } }
    IN  CHOOSE f \in [1..Cardinality(svcs) -> svcs] : Range(f) = svcs

\* report['exposed_services']
ExposedServices(as) ==
    LET Exposed(a) == a.exposed
        ex == SelectSeq(as, Exposed)
    IN  Concat([i \in DOMAIN ex |-> ex[i].services])

CriticalValue == 8

\* report['critical_assets']
CriticalAssets(as) ==
    LET Critical(a) == a.value >= CriticalValue
        cr == SelectSeq(as, Critical)
    IN  IF cr = <<>> THEN <<>>
        ELSE [i \in DOMAIN cr |->
                [name |-> cr[i].name, type |-> AssetTypeValue[cr[i].type],
                 description |-> cr[i].description]]

\* the threats the loop over self.threats keeps
HighRisk(ts) ==
    LET High(t) == t.level \in {"CRITICAL", "HIGH"}
    IN  SelectSeq(ts, High)

\* report['high_risk_threats']
HighRiskThreats(ts) ==
    LET hr == HighRisk(ts)
    IN  IF hr = <<>> THEN <<>>
        ELSE [i \in DOMAIN hr |->
                [name |-> hr[i].name, level |-> ThreatLevelValue[hr[i].level],
                 description |-> hr[i].description]]

\* report['attack_vectors']: updated inside the high-risk branch only
ReportAttackVectors(ts) ==
    UNION { BagToSet(t.attack_vectors) : t \in Range(HighRisk(ts)) }

WebSuggestions ==
    << "deploy a web application firewall (WAF)",
       "enable HTTPS and configure security headers",
       "implement input validation and output encoding" >>
DatabaseSuggestions ==
    << "restrict database server access",
       "enforce a strong password policy",
       "back up the database regularly" >>
InjectionSuggestions ==
    << "use parameterized queries",
       "implement input validation",
       "principle of least privilege" >>
CrossSiteSuggestions ==
    << "implement a CSP policy",
       "use secure Cookie flags",
       "input validation and output encoding" >>

InjectionTheme == <<"zhu","ru">>     \* '注入'
CrossSiteTheme == <<"kua","zhan">>   \* '跨站'

\* what the first loop extends suggestions with for one service
SuggestionsForService(service) ==
    IF service \in {"http", "https"} THEN WebSuggestions
    ELSE IF service \in {"mysql", "mssql", "postgresql"} THEN DatabaseSuggestions
    ELSE <<>>

\* what the second loop extends suggestions with for one vector
SuggestionsForVector(vector) ==
    IF Contains(vector, InjectionTheme) THEN InjectionSuggestions
    ELSE IF Contains(vector, CrossSiteTheme) THEN CrossSiteSuggestions
    ELSE <<>>

RECURSIVE SuggestionsForVectors(_)
\* the second loop: it runs over a set, each vector once
SuggestionsForVectors(attack_vectors) ==
    IF attack_vectors = {} THEN EmptyBag
    ELSE LET vector == CHOOSE v \in attack_vectors : TRUE
         IN  BagOfSeq(SuggestionsForVector(vector))
             (+) SuggestionsForVectors(attack_vectors \ {vector})

\* the list suggestions before list(set(...)), as a bag
SuggestionsExtended(exposed_services, attack_vectors) ==
    BagOfSeq(Concat([i \in DOMAIN exposed_services |->
                        SuggestionsForService(exposed_services[i])]))
    (+) SuggestionsForVectors(attack_vectors)

_generate_mitigation_suggestions(exposed_services, attack_vectors) ==
    ListOfSet(SuggestionsExtended(exposed_services, attack_vectors))

\* the Python type of each field of the report dict
ReportFieldType ==
    [ exposed_services |-> "list", critical_assets |-> "list",
      high_risk_threats |-> "list", attack_vectors |-> "set",
      mitigation_suggestions |-> "list" ]

AttackSurfaceReport(as, ts) ==
    [ exposed_services |-> ExposedServices(as),
      critical_assets |-> CriticalAssets(as),
      high_risk_threats |-> HighRiskThreats(ts),
      attack_vectors |-> ReportAttackVectors(ts),
      mitigation_suggestions |->
          _generate_mitigation_suggestions(ExposedServices(as),
                                           ReportAttackVectors(ts)) ]

generate_attack_surface_report ==
    LET report == Dict(AttackSurfaceReport(assets, threats))
    IN  /\ results' = Put(results, "attack_surface", report)
        /\ ret' = report
        /\ op' = "generate_attack_surface_report"
        /\ UNCHANGED <<assets, threats, file>>

----------------------------------------------------------------------------
(* export_results                                                          *)

\* the Python types json.dump can encode
JsonTypes == {"dict", "list", "str", "int", "float", "bool", "NoneType"}

\* json.dump(self.results, f, ...) returns rather than raising TypeError:
\* the values under 'assets', 'threats' and 'risk_scores' are lists and
\* dicts of str, int, float and bool; the report has the field types above
JsonDumpSucceeds(res) ==
    HasKey(res, "attack_surface") =>
        \A fld \in DOMAIN res["attack_surface"] : ReportFieldType[fld] \in JsonTypes

NoFile == [exists |-> FALSE, complete |-> FALSE, keys |-> {}]

\* path_ok: open(filepath, 'w') succeeds.  The file is truncated on open
\* and written as the encoder goes, so a failed dump leaves a document cut
\* short at the value that could not be encoded.
export_results(path_ok) ==
    /\ file' = IF ~path_ok THEN file
               ELSE IF JsonDumpSucceeds(results)
               THEN [exists |-> TRUE, complete |-> TRUE, keys |-> DOMAIN results]
               ELSE [exists |-> TRUE, complete |-> FALSE, keys |-> {}]
    /\ op' = "export_results"
    /\ ret' = <<>>
    /\ UNCHANGED <<assets, threats, results>>

----------------------------------------------------------------------------
Init ==
    /\ assets = <<>>
    /\ threats = <<>>
    /\ results = <<>>
    /\ op = "init"
    /\ ret = <<>>
    /\ file = NoFile

\* the whole pipeline, on the pipeline inputs
Next ==
    \/ \E scan_results \in PipelineAssetInputs : analyze_assets(scan_results)
    \/ \E scan_results \in PipelineThreatInputs : identify_threats(scan_results)
    \/ calculate_risk_scores
    \/ generate_attack_surface_report
    \/ \E path_ok \in BOOLEAN : export_results(path_ok)

Spec == Init /\ [][Next]_vars

\* the two ingesting stages in any interleaving, on all the inputs
NextThreats ==
    \/ \E scan_results \in AssetScanResults : analyze_assets(scan_results)
    \/ \E scan_results \in ThreatScanResults : identify_threats(scan_results)

SpecThreats == Init /\ [][NextThreats]_vars

\* the ingesting stages and the scorer
NextScores ==
    \/ \E scan_results \in AssetScanResults : analyze_assets(scan_results)
    \/ \E scan_results \in ThreatScanResults : identify_threats(scan_results)
    \/ calculate_risk_scores

SpecScores == Init /\ [][NextScores]_vars

\* the ingesting stages and the summarizer
NextReport ==
    \/ \E scan_results \in AssetScanResults : analyze_assets(scan_results)
    \/ \E scan_results \in ThreatScanResults : identify_threats(scan_results)
    \/ generate_attack_surface_report

SpecReport == Init /\ [][NextReport]_vars

\* the asset classifier alone, on the inputs of the classification rules
NextClassify ==
    \E scan_results \in ClassifyScanResults : analyze_assets(scan_results)

SpecClassify == Init /\ [][NextClassify]_vars

\* the threat identifier alone, one vulnerable finding per call, on the
\* inputs of the likelihood and impact helpers
NextFindings ==
    \E f \in ScoringFindings :
        identify_threats([vuln_scan |-> VulnScanOf(<<f>>)])

SpecFindings == Init /\ [][NextFindings]_vars

\* the asset classifier and the threat identifier, one vulnerable finding
\* per call under each service-type label
NextLabels ==
    \/ \E scan_results \in AssetScanResults : analyze_assets(scan_results)
    \/ \E label \in ServiceLabels :
          identify_threats([vuln_scan |-> VulnScanFor(label, <<CriticalRceFinding>>)])

SpecLabels == Init /\ [][NextLabels]_vars

\* the three stages the suggestions depend on, on the inputs of the
\* mitigation suggestions
NextSuggestions ==
    \/ \E scan_results \in SuggestionAssetInputs : analyze_assets(scan_results)
    \/ \E f \in SuggestionFindings :
          identify_threats([vuln_scan |-> VulnScanOf(<<f>>)])
    \/ generate_attack_surface_report

SpecSuggestions == Init /\ [][NextSuggestions]_vars

\* the asset classifier on the inputs of all its rules, the threat
\* identifier on a critical finding and on a detected WAF, and the scorer
NextValues ==
    \/ \E scan_results \in ClassifyScanResults : analyze_assets(scan_results)
    \/ \E scan_results \in { [vuln_scan |-> VulnScanOf(<<CriticalRceFinding>>)],
                             [waf_bypass |-> WafDetected] } :
          identify_threats(scan_results)
    \/ calculate_risk_scores

SpecValues == Init /\ [][NextValues]_vars

----------------------------------------------------------------------------
(* Properties                                                              *)

AssetNames == { assets[i].name : i \in DOMAIN assets }

\* the elements a call appended to a list
Appended(before, after) ==
    { after[i] : i \in (Len(before) + 1)..Len(after) }

RECURSIVE SumOfProducts(_, _)
\* the sum of likelihood * impact over the threats i..Len(threats) that name n
SumOfProducts(n, i) ==
    IF i > Len(threats) THEN 0
    ELSE (IF \E j \in DOMAIN threats[i].affected_assets :
                threats[i].affected_assets[j] = n
          THEN threats[i].likelihood * threats[i].impact ELSE 0)
         + SumOfProducts(n, i + 1)

\* min(100, (value * 10 + S) * m) in units of 1/ScoreScale
ScoreOf(a) ==
    LET S == SumOfProducts(a.name, 1)
        m == IF a.exposed THEN (3 * ScoreScale) \div 2 ELSE ScoreScale
        x == (a.value * 10 + S) * m
    IN  IF x > 100 * ScoreScale THEN 100 * ScoreScale ELSE x

\* C1: when calculate_risk_scores has run, the score stored under the name
\* of every asset a of the inventory is min(100, (a.value*10 + S) * m), S
\* the sum of likelihood*impact over the threats naming a, m = 1.5 for an
\* exposed asset and 1.0 otherwise.
C1_ScoreFormula ==
    op = "calculate_risk_scores" =>
        \A i \in DOMAIN assets :
            /\ assets[i].name \in DOMAIN results["risk_scores"]
            /\ results["risk_scores"][assets[i].name] = ScoreOf(assets[i])

\* C1 witness: scores were computed for an inventory in which one asset is
\* named by two threats and another asset by none.
C1_Witness ==
    /\ op = "calculate_risk_scores"
    /\ \E i \in DOMAIN assets :
          Cardinality({ k \in DOMAIN threats :
              assets[i].name \in Range(threats[k].affected_assets) }) = 2
    /\ \E i \in DOMAIN assets :
          \A k \in DOMAIN threats :
              assets[i].name \notin Range(threats[k].affected_assets)

\* C2: after any sequence of calls of the four stages every value of the
\* risk-score mapping is within 0..100.
C2_ScoreBounds ==
    HasKey(results, "risk_scores") =>
        \A n \in DOMAIN results["risk_scores"] :
            /\ 0 <= results["risk_scores"][n]
            /\ results["risk_scores"][n] <= 100 * ScoreScale

\* C2 witness: all four stages have stored their output, scores were
\* computed over assets that threats name, and the report was made last.
C2_Witness ==
    /\ op = "generate_attack_surface_report"
    /\ DOMAIN results = {"assets", "threats", "risk_scores", "attack_surface"}
    /\ \E n \in DOMAIN results["risk_scores"] :
          \E k \in DOMAIN threats : n \in Range(threats[k].affected_assets)

RECURSIVE IsolatedAssets(_)
\* the assets of a batch when a malformed record fails for itself only
IsolatedAssets(recs) ==
    IF recs = <<>> THEN <<>>
    ELSE LET r == ClassifyRecord(Head(recs).host, Head(recs).port, Head(recs).info)
         IN  (IF r.raised THEN <<>> ELSE r.new) \o IsolatedAssets(Tail(recs))

\* C3: in analyze_assets a record without 'service' fails for itself only:
\* every other record of the batch that matches a rule gets its asset into
\* the inventory and into the returned sequence.
C3_PerRecordIsolation ==
    [][ \A sr \in AssetScanResults :
            analyze_assets(sr) =>
                LET want == Range(IsolatedAssets(Get(sr, "port_scan", <<>>)))
                IN  /\ want \subseteq Appended(assets, assets')
                    /\ want \subseteq Range(ret') ]_vars

RECURSIVE IsolatedItems(_, _, _)
IsolatedItems(as, service_type, items) ==
    IF items = <<>> THEN <<>>
    ELSE LET r == ThreatOfFinding(as, service_type, Head(items).findings)
         IN  (IF r.raised THEN <<>> ELSE r.val)
             \o IsolatedItems(as, service_type, Tail(items))

RECURSIVE IsolatedVulnScan(_, _)
IsolatedVulnScan(as, vs) ==
    IF vs = <<>> THEN <<>>
    ELSE (IF Head(vs).results.isdict
          THEN IsolatedItems(as, Head(vs).service_type, Head(vs).results.items)
          ELSE <<>>)
         \o IsolatedVulnScan(as, Tail(vs))

\* the threats of a batch when a malformed finding is skipped on its own
IsolatedThreats(as, sr) ==
    IsolatedVulnScan(as, Get(sr, "vuln_scan", <<>>)) \o WafThreats(as, sr)

\* C4: in identify_threats a malformed finding is skipped on its own: every
\* other vulnerable finding of the batch, and the WAF threat when detected,
\* are appended to the threat list.
C4_PerFindingIsolation ==
    [][ \A sr \in ThreatScanResults :
            identify_threats(sr) =>
                Range(IsolatedThreats(assets, sr)) \subseteq Appended(threats, threats') ]_vars

\* the level the severity string stands for, medium when it is absent or
\* outside the four levels
LevelBySeverity(f) ==
    LET known == [ critical |-> "CRITICAL", high |-> "HIGH",
                   medium |-> "MEDIUM", low |-> "LOW" ]
        spelt == [ critical |-> <<"c","r","i","t","i","c","a","l">>,
                   high |-> <<"h","i","g","h">>,
                   medium |-> <<"m","e","d","i","u","m">>,
                   low |-> <<"l","o","w">> ]
        hit == { k \in DOMAIN known :
                   /\ HasKey(f, "severity")
                   /\ Lower(f["severity"].chars) = spelt[k] }
    IN  IF hit = {} THEN "MEDIUM" ELSE known[CHOOSE k \in hit : TRUE]

\* the well-formed vulnerable findings of the inputs
VulnerableFindings ==
    { x \in Findings :
        /\ x.pytype = "dict"
        /\ Get(x.d, "vulnerable", FALSE)
        /\ HasKey(x.d, "severity") => x.d["severity"].pytype = "str" }

\* C5: the level of a threat made from a vulnerable finding is the level
\* its severity names, case-insensitively, and medium when the severity is
\* absent or is a string outside the four levels.
C5_LevelFromSeverity ==
    [][ \A x \in VulnerableFindings :
            identify_threats([vuln_scan |-> VulnScanOf(<<x>>)]) =>
                /\ Len(threats') = Len(threats) + 1
                /\ threats'[Len(threats')].level = LevelBySeverity(x.d) ]_vars

\* C6: the attack_vectors of the report are the union of the attack
\* vectors of all the threats of the threat list, whatever their level.
C6_AllAttackVectors ==
    op = "generate_attack_surface_report" =>
        ret.attack_vectors =
            UNION { BagToSet(threats[k].attack_vectors) : k \in DOMAIN threats }

\* C7: export_results, called on a writable path once the four stages have
\* stored their output, leaves a complete document holding assets,
\* threats, risk_scores and attack_surface.
C7_ExportAfterPipeline ==
    [][ ( /\ export_results(TRUE)
          /\ {"assets", "threats", "risk_scores", "attack_surface"}
                \subseteq DOMAIN results )
        => ( /\ file'.exists
             /\ file'.complete
             /\ file'.keys = DOMAIN results ) ]_vars

\* C8: what a stage returns when it hits a malformed record differs from
\* what the same stage returns for an empty input on a fresh model.
C8_MalformedDistinguishable ==
    [][ /\ \A sr \in AssetScanResults :
              (analyze_assets(sr) /\ AnalyzeRun(sr).raised)
                  => ret' # AnalyzeReturn(<<>>, <<>>)
        /\ \A sr \in ThreatScanResults :
              (identify_threats(sr) /\ IdentifyRun(assets, sr).raised)
                  => ret' # IdentifyReturn(<<>>, <<>>, <<>>) ]_vars

\* C9: once results['assets'] exists it is the field-by-field image of the
\* asset inventory, and once results['threats'] exists it is the image of
\* the threat list.
C9_NoDivergingCopies ==
    /\ HasKey(results, "assets") =>
          /\ Len(results["assets"]) = Len(assets)
          /\ \A i \in DOMAIN assets : results["assets"][i] = _asset_to_dict(assets[i])
    /\ HasKey(results, "threats") =>
          /\ Len(results["threats"]) = Len(threats)
          /\ \A i \in DOMAIN threats : results["threats"][i] = _threat_to_dict(threats[i])

\* C10: in every reachable state every name in every threat's
\* affected_assets is the name of an asset of the inventory.
C10_AffectedAssetsExist ==
    \A k \in DOMAIN threats :
        \A j \in DOMAIN threats[k].affected_assets :
            threats[k].affected_assets[j] \in AssetNames

\* C10 witness: a threat made before any asset existed, a later threat
\* naming an asset, and an asset no threat names.
C10_Witness ==
    /\ \E k \in DOMAIN threats : threats[k].affected_assets = <<>>
    /\ \E k \in DOMAIN threats : threats[k].affected_assets # <<>>
    /\ \E i \in DOMAIN assets :
          \A k \in DOMAIN threats :
              assets[i].name \notin Range(threats[k].affected_assets)

\* s is a prefix of t
IsPrefix(s, t) ==
    /\ Len(s) <= Len(t)
    /\ \A i \in DOMAIN s : t[i] = s[i]

\* C11: both lists are append-only: every step leaves the prior contents of
\* each list as a prefix of its new contents; a step of analyze_assets
\* leaves the threat list as it was, a step of identify_threats leaves the
\* inventory as it was, and a step of calculate_risk_scores or of
\* generate_attack_surface_report leaves both as they were.
C11_AppendOnly ==
    [][ /\ IsPrefix(assets, assets')
        /\ IsPrefix(threats, threats')
        /\ op' = "analyze_assets" => threats' = threats
        /\ op' = "identify_threats" => assets' = assets
        /\ op' \in {"calculate_risk_scores", "generate_attack_surface_report"}
              => (assets' = assets /\ threats' = threats) ]_vars

\* C11 witness: analyze_assets has just extended a non-empty inventory: the
\* two assets both run http, and a threat made between the two calls names
\* only the one that existed then.
C11_Witness ==
    /\ op = "analyze_assets"
    /\ Len(assets) = 2
    /\ \A i \in DOMAIN assets : assets[i].services = <<"http">>
    /\ \E k \in DOMAIN threats :
          /\ threats[k].name = "Vulnerability in http"
          /\ Len(threats[k].affected_assets) = 1

\* C12: calculate_risk_scores is idempotent: a call that directly follows
\* another call of it (so neither list changed in between) returns the
\* mapping the first call returned, and the stored risk_scores is that
\* mapping, with exactly the asset names as keys.
C12_Idempotent ==
    [][ (op = "calculate_risk_scores" /\ op' = "calculate_risk_scores")
            => /\ ret' = ret
               /\ results'["risk_scores"] = ret'
               /\ DOMAIN ret' = AssetNames ]_vars

\* C12 witness: scores were just computed and stored for an inventory in
\* which a threat names an asset, the state the second call starts from.
C12_Witness ==
    /\ op = "calculate_risk_scores"
    /\ results["risk_scores"] = ret
    /\ DOMAIN ret # {}
    /\ \E k \in DOMAIN threats : threats[k].affected_assets # <<>>

\* the rule a (port, service-record) tuple matches first: web_server,
\* database, domain_controller, or none
FirstRule(port, info) ==
    LET named == HasKey(info, "service")
    IN  IF named /\ info["service"] \in {"http", "https"} THEN "WEB_SERVER"
        ELSE IF named /\ info["service"] \in {"mysql", "mssql", "postgresql", "mongodb"}
        THEN "DATABASE"
        ELSE IF port = 389 \/ (named /\ info["service"] \in {"ldap", "kerberos"})
        THEN "DOMAIN_CONTROLLER"
        ELSE "none"

RuleValue == [WEB_SERVER |-> 8, DATABASE |-> 9, DOMAIN_CONTROLLER |-> 10]

\* what the rules say of an asset: its type, value and exposure
Classified(a) == [type |-> a.type, value |-> a.value, exposed |-> a.exposed]

RECURSIVE RuleAssets(_)
\* the classification of a batch under the rules, tuple by tuple
RuleAssets(recs) ==
    IF recs = <<>> THEN <<>>
    ELSE LET rule == FirstRule(Head(recs).port, Head(recs).info)
         IN  (IF rule = "none" THEN <<>>
              ELSE << [type |-> rule, value |-> RuleValue[rule], exposed |-> TRUE] >>)
             \o RuleAssets(Tail(recs))

\* the hosts of the tuples of a batch that the rules make domain controllers
DirectoryHosts(recs) ==
    { recs[i].host : i \in { j \in DOMAIN recs :
                                FirstRule(recs[j].port, recs[j].info)
                                    = "DOMAIN_CONTROLLER" } }

\* C13: analyze_assets classifies every tuple of a batch by the first rule
\* it matches, in the order web_server (value 8), database (value 9),
\* domain_controller (value 10, named by host only): the assets a call
\* appends are, in order, one exposed asset per matching tuple, and none
\* for a tuple matching no rule.
C13_FirstMatchWins ==
    [][ \A sr \in ClassifyScanResults :
            analyze_assets(sr) =>
                LET new == SubSeq(assets', Len(assets) + 1, Len(assets'))
                IN  /\ [i \in DOMAIN new |-> Classified(new[i])]
                           = RuleAssets(sr["port_scan"])
                    /\ \A i \in DOMAIN new :
                           new[i].type = "DOMAIN_CONTROLLER" =>
                               \E h \in DirectoryHosts(sr["port_scan"]) :
                                   new[i].name = "Domain Controller (" \o h \o ")" ]_vars

\* C14: a record for port 389 on host dc1 that carries no service name
\* yields exactly one asset: a domain_controller of value 10, exposed,
\* named by the host only.
C14_LdapPortWithoutService ==
    [][ analyze_assets([port_scan |->
                          << PortRecord(ClassifyKeys[2], NoServiceInfo) >>])
            => /\ Len(assets') = Len(assets) + 1
               /\ assets'[Len(assets')].type = "DOMAIN_CONTROLLER"
               /\ assets'[Len(assets')].value = 10
               /\ assets'[Len(assets')].exposed
               /\ assets'[Len(assets')].name = "Domain Controller (dc1)" ]_vars

\* clamp(x, lo, hi)
Clamp(x, lo, hi) == IF x < lo THEN lo ELSE IF x > hi THEN hi ELSE x

\* the adjustment T for the type of a finding
TypeAdjustment(f) ==
    IF ~HasKey(f, "type") THEN 0
    ELSE IF f["type"] \in {"rce", "sqli", "upload"} THEN 3
    ELSE IF f["type"] \in {"xss", "csrf"} THEN 2
    ELSE 0

\* the adjustment D for the difficulty of a finding
DifficultyAdjustment(f) ==
    IF ~HasKey(f, "difficulty") THEN 0
    ELSE IF f["difficulty"] = "easy" THEN 2
    ELSE IF f["difficulty"] = "hard" THEN 0 - 2
    ELSE 0

\* C15: the likelihood of the threat made from a vulnerable finding is
\* clamp(5 + T + D, 1, 10), T by the type and D by the difficulty, both
\* applied when both fields are present; it is within 1..10.
C15_Likelihood ==
    [][ \A x \in LikelihoodFindings :
            identify_threats([vuln_scan |-> VulnScanOf(<<x>>)]) =>
                LET t == threats'[Len(threats')]
                IN  /\ Len(threats') = Len(threats) + 1
                    /\ t.likelihood =
                         Clamp(5 + TypeAdjustment(x.d) + DifficultyAdjustment(x.d), 1, 10)
                    /\ t.likelihood \in 1..10 ]_vars

\* C15 witness: a threat whose type and difficulty both adjusted (rce and
\* hard: 5 + 3 - 2) beside one adjusted by the difficulty alone (hard: 3).
C15_Witness ==
    /\ op = "identify_threats"
    /\ Len(threats) = 2
    /\ threats[1].likelihood = 6
    /\ threats[1].attack_vectors = BagOfSeq(<<CommandInjection, RemoteCodeExecution>>)
    /\ threats[2].likelihood = 3

\* the first matching adjustment for an impact text: +4 for "system" or
\* "root", else +3 for "data" or "confidential", else +2 for "user"
ImpactAdjustment(text) ==
    IF Contains(text, <<"s","y","s","t","e","m">>)
       \/ Contains(text, <<"r","o","o","t">>) THEN 4
    ELSE IF Contains(text, <<"d","a","t","a">>)
            \/ Contains(text, <<"c","o","n","f","i","d","e","n","t","i","a","l">>)
    THEN 3
    ELSE IF Contains(text, <<"u","s","e","r">>) THEN 2
    ELSE 0

\* C16, as stated: the impact of the threat made from a vulnerable finding
\* is 5 without an impact field, and otherwise 5 plus the first matching
\* adjustment for the words the impact text contains; it is within 1..10.
C16_ImpactAsStated ==
    [][ \A x \in ScoringFindings :
            identify_threats([vuln_scan |-> VulnScanOf(<<x>>)]) =>
                LET t == threats'[Len(threats')]
                IN  /\ Len(threats') = Len(threats) + 1
                    /\ t.impact = IF HasKey(x.d, "impact")
                                  THEN 5 + ImpactAdjustment(x.d["impact"].chars)
                                  ELSE 5
                    /\ t.impact \in 1..10 ]_vars

\* C16, amended: the same, the words being looked for in the lower-cased
\* impact text, so that "Root" counts as "root".
C16_ImpactIgnoringCase ==
    [][ \A x \in ScoringFindings :
            identify_threats([vuln_scan |-> VulnScanOf(<<x>>)]) =>
                LET t == threats'[Len(threats')]
                IN  /\ Len(threats') = Len(threats) + 1
                    /\ t.impact = IF HasKey(x.d, "impact")
                                  THEN 5 + ImpactAdjustment(Lower(x.d["impact"].chars))
                                  ELSE 5
                    /\ t.impact \in 1..10 ]_vars

\* C16 witness: a threat of impact 9 (an impact text with "system" or
\* "root") beside one of impact 7 (a text with "user" and no earlier word).
C16_Witness ==
    /\ op = "identify_threats"
    /\ Len(threats) = 2
    /\ threats[1].impact = 9
    /\ threats[2].impact = 7

\* how often the threat t names n
TimesNamed(t, n) ==
    Cardinality({ j \in DOMAIN t.affected_assets : t.affected_assets[j] = n })

\* how many assets of the inventory are named n and run the service label
TimesRunning(label, n) ==
    Cardinality({ i \in DOMAIN assets :
                    /\ assets[i].name = n
                    /\ label \in Range(assets[i].services) })

\* C17: the threat made from a vulnerable finding under the label L names
\* exactly the assets of the inventory, as it is when identify_threats
\* runs, whose services contain L: one entry per such asset, none other.
C17_AffectedByLabel ==
    [][ \A label \in ServiceLabels :
            identify_threats([vuln_scan |-> VulnScanFor(label, <<CriticalRceFinding>>)]) =>
                LET t == threats'[Len(threats')]
                IN  /\ Len(threats') = Len(threats) + 1
                    /\ \A n \in AssetNames \cup Range(t.affected_assets) :
                           TimesNamed(t, n) = TimesRunning(label, n) ]_vars

\* C17 witness: the inventory holds an asset running http and one running
\* ssh, and the threat just made under the label ssh names the latter only.
C17_Witness ==
    /\ op = "identify_threats"
    /\ \E i, j \in DOMAIN assets :
          /\ assets[i].services = <<"http">>
          /\ assets[j].services = <<"ssh">>
          /\ threats # <<>>
          /\ threats[Len(threats)].name = "Vulnerability in ssh"
          /\ threats[Len(threats)].affected_assets = <<assets[j].name>>

\* the WAF-detection input of a call reports detected = true
WafReported(sr) ==
    /\ HasKey(sr, "waf_bypass")
    /\ HasKey(sr["waf_bypass"], "waf_info")
    /\ HasKey(sr["waf_bypass"]["waf_info"], "detected")
    /\ sr["waf_bypass"]["waf_info"]["detected"]

\* the threats among ts that are named "WAF Bypass Potential"
WafNamed(ts) ==
    LET IsWaf(t) == t.name = "WAF Bypass Potential"
    IN  SelectSeq(ts, IsWaf)

\* the names of the web_server assets of the inventory, in its order
WebServerAssets ==
    LET IsWeb(a) == AssetTypeValue[a.type] = "web_server"
        web == SelectSeq(assets, IsWeb)
    IN  [i \in DOMAIN web |-> web[i].name]

\* C18: a call of identify_threats whose WAF-detection input reports
\* detected = true appends exactly one threat named "WAF Bypass Potential":
\* level high, likelihood 7, impact 8, the attack vectors WAF bypass and
\* injection attack, affected_assets the names of all web_server assets; a
\* call whose input reports false or nothing appends no such threat.
C18_WafThreat ==
    [][ \A sr \in ThreatScanResults :
            identify_threats(sr) =>
                LET new == SubSeq(threats', Len(threats) + 1, Len(threats'))
                    waf == WafNamed(new)
                IN  IF WafReported(sr)
                    THEN /\ Len(waf) = 1
                         /\ waf[1].level = "HIGH"
                         /\ waf[1].likelihood = 7
                         /\ waf[1].impact = 8
                         /\ BagToSet(waf[1].attack_vectors) = {WafBypass, InjectionAttack}
                         /\ waf[1].affected_assets = WebServerAssets
                    ELSE waf = <<>> ]_vars

\* the findings of a call, over all service entries whose value is a dict
FindingsOf(sr) ==
    IF HasKey(sr, "vuln_scan")
    THEN LET vs == sr["vuln_scan"]
         IN  { p \in (DOMAIN vs) \X (1..Len(ToolList)) :
                 /\ vs[p[1]].results.isdict
                 /\ p[2] \in DOMAIN vs[p[1]].results.items }
    ELSE {}

\* how many findings of a call are marked vulnerable = true
VulnerableCount(sr) ==
    Cardinality({ p \in FindingsOf(sr) :
        LET x == sr["vuln_scan"][p[1]].results.items[p[2]].findings
        IN  /\ x.pytype = "dict"
            /\ HasKey(x.d, "vulnerable")
            /\ x.d["vulnerable"] })

\* C19: identify_threats appends as many threats as the call has findings
\* with vulnerable = true, plus one if WAF is detected, so that findings
\* not marked vulnerable produce none; and the report made while the
\* threat list is empty has empty high_risk_threats and attack_vectors.
C19_OnlyVulnerableFindings ==
    [][ /\ \A sr \in ThreatScanResults :
              identify_threats(sr) =>
                  Len(threats') - Len(threats)
                      = VulnerableCount(sr) + (IF WafReported(sr) THEN 1 ELSE 0)
        /\ (op' = "generate_attack_surface_report" /\ threats = <<>>)
              => /\ ret'.high_risk_threats = <<>>
                 /\ ret'.attack_vectors = {} ]_vars

\* how often x occurs in the sequence s
Occurrences(s, x) == Cardinality({ i \in DOMAIN s : s[i] = x })

\* how often the exposed assets of the inventory run the service svc
ExposedRuns(svc) ==
    Cardinality({ p \in UNION { { <<i, j>> : j \in DOMAIN assets[i].services }
                                 : i \in DOMAIN assets } :
                    /\ assets[p[1]].exposed
                    /\ assets[p[1]].services[p[2]] = svc })

\* the report entry of an asset and of a threat
AssetEntry(a) ==
    [name |-> a.name, type |-> AssetTypeValue[a.type], description |-> a.description]
ThreatEntry(t) ==
    [name |-> t.name, level |-> ThreatLevelValue[t.level], description |-> t.description]

\* C20: in the report, exposed_services holds every service of every
\* exposed asset, once per asset that runs it; critical_assets holds one
\* entry for exactly the assets of value >= 8; high_risk_threats holds one
\* entry for exactly the threats of level critical or high.
C20_ReportLists ==
    op = "generate_attack_surface_report" =>
        /\ \A svc \in Range(ret.exposed_services)
                       \cup UNION { Range(assets[i].services) : i \in DOMAIN assets } :
               Occurrences(ret.exposed_services, svc) = ExposedRuns(svc)
        /\ \A e \in Range(ret.critical_assets)
                     \cup { AssetEntry(assets[i]) : i \in DOMAIN assets } :
               Occurrences(ret.critical_assets, e)
                   = Cardinality({ i \in DOMAIN assets :
                                     assets[i].value >= 8 /\ AssetEntry(assets[i]) = e })
        /\ \A e \in Range(ret.high_risk_threats)
                     \cup { ThreatEntry(threats[k]) : k \in DOMAIN threats } :
               Occurrences(ret.high_risk_threats, e)
                   = Cardinality({ k \in DOMAIN threats :
                                     /\ ThreatLevelValue[threats[k].level] \in {"critical", "high"}
                                     /\ ThreatEntry(threats[k]) = e })

\* C20 witness: a report over two exposed assets that both run http, so
\* that http is listed twice, and over one threat of level critical or
\* high beside one of a lower level, so that one threat is listed.
C20_Witness ==
    /\ op = "generate_attack_surface_report"
    /\ Len(assets) = 2
    /\ ret.exposed_services = <<"http", "http">>
    /\ Len(ret.critical_assets) = 2
    /\ Len(threats) = 2
    /\ Len(ret.high_risk_threats) = 1

\* the suggestions the rules give for the exposed services and the
\* collected attack vectors of a report, each rule on its own
RuleSuggestions(exposed_services, attack_vectors) ==
    (IF \E i \in DOMAIN exposed_services :
            exposed_services[i] \in {"http", "https"}
     THEN Range(WebSuggestions) ELSE {})
    \cup (IF \E i \in DOMAIN exposed_services :
                exposed_services[i] \in {"mysql", "mssql", "postgresql"}
          THEN Range(DatabaseSuggestions) ELSE {})
    \cup (IF \E v \in attack_vectors : Contains(v, <<"zhu","ru">>)
          THEN Range(InjectionSuggestions) ELSE {})
    \cup (IF \E v \in attack_vectors : Contains(v, <<"kua","zhan">>)
          THEN Range(CrossSiteSuggestions) ELSE {})

\* C21: mitigation_suggestions of a report has no duplicate entry and is
\* the union of the rule outcomes: the web suggestions if an exposed
\* service is http or https, the database suggestions if one is mysql,
\* mssql or postgresql, the injection suggestions if a collected attack
\* vector contains the injection theme and the cross-site suggestions if
\* one contains the cross-site theme, both when one vector contains both.
C21_MitigationSuggestions ==
    op = "generate_attack_surface_report" =>
        /\ \A x \in BagToSet(ret.mitigation_suggestions) :
               CopiesIn(x, ret.mitigation_suggestions) = 1
        /\ BagToSet(ret.mitigation_suggestions)
               = RuleSuggestions(ret.exposed_services, ret.attack_vectors)

\* the threat list with the likelihood and the impact of threat k replaced
WithStrength(ts, k, likelihood, impact) ==
    [ts EXCEPT ![k] = [@ EXCEPT !.likelihood = likelihood, !.impact = impact]]

\* C22: when calculate_risk_scores has returned, computing the scores again
\* over the same inventory and the same threat list in which one threat has
\* a likelihood and an impact raised within 1..10 gives, for every asset
\* named in that threat's affected_assets, a score that is not lower.
C22_Monotone ==
    op = "calculate_risk_scores" =>
        \A k \in DOMAIN threats :
            \A likelihood \in threats[k].likelihood..10 :
                \A impact \in threats[k].impact..10 :
                    LET raised == RiskScores(assets,
                                      WithStrength(threats, k, likelihood, impact), <<>>)
                    IN  \A n \in Range(threats[k].affected_assets) :
                            n \in AssetNames => ret[n] <= raised[n]

\* C22 witness: scores were computed while a threat of likelihood and impact
\* below 10 names an asset of the inventory, and raising its likelihood by
\* one raises that asset's score before the cap.
C22_Witness ==
    /\ op = "calculate_risk_scores"
    /\ \E k \in DOMAIN threats : \E i \in DOMAIN assets :
          /\ assets[i].name \in Range(threats[k].affected_assets)
          /\ threats[k].likelihood < 10
          /\ threats[k].impact < 10
          /\ FinalScore(assets[i], threats)
                < FinalScore(assets[i],
                      WithStrength(threats, k, threats[k].likelihood + 1,
                                   threats[k].impact))

\* C23: a call of identify_threats whose WAF-detection input reports
\* detected = true while the inventory holds no web_server asset appends
\* exactly one threat named "WAF Bypass Potential", with empty
\* affected_assets, and the scores computed with that threat in the list
\* are the scores computed without it.
C23_WafWithoutWebServer ==
    [][ \A sr \in ThreatScanResults :
            (/\ op' = "identify_threats"
             /\ identify_threats(sr)
             /\ WafReported(sr)
             /\ WebServerAssets = <<>>) =>
                LET new == SubSeq(threats', Len(threats) + 1, Len(threats'))
                    waf == WafNamed(new)
                    before == SubSeq(threats', 1, Len(threats') - 1)
                IN  /\ Len(waf) = 1
                    /\ waf[1].affected_assets = <<>>
                    /\ threats'[Len(threats')] = waf[1]
                    /\ RiskScores(assets, threats', <<>>)
                          = RiskScores(assets, before, <<>>) ]_vars

\* the score of an asset that no threat contributes to:
\* min(100, value * 10 * multiplier), in units of 1/ScoreScale
BaseScoreOf(a) ==
    LET m == IF a.exposed THEN (3 * ScoreScale) \div 2 ELSE ScoreScale
        x == a.value * 10 * m
    IN  IF x > 100 * ScoreScale THEN 100 * ScoreScale ELSE x

\* C24: every call of the five operations hands a value of one of its
\* return statements back to the caller, whatever the input and the state:
\* the whole list or the empty list for analyze_assets and
\* identify_threats, a mapping over the asset names for
\* calculate_risk_scores, a report of the five fields for
\* generate_attack_surface_report, nothing for export_results; and
\* calculate_risk_scores called while the threat list is empty gives every
\* asset its base score min(100, value*10*multiplier).
C24_NoStageFatal ==
    /\ op = "analyze_assets" => ret \in {assets, <<>>}
    /\ op = "identify_threats" => ret \in {threats, <<>>}
    /\ op = "calculate_risk_scores" => DOMAIN ret = AssetNames
    /\ op = "generate_attack_surface_report" => DOMAIN ret = DOMAIN ReportFieldType
    /\ op = "export_results" => ret = <<>>
    /\ (op = "calculate_risk_scores" /\ threats = <<>>) =>
          \A i \in DOMAIN assets : ret[assets[i].name] = BaseScoreOf(assets[i])

\* C24 witness: an analyze_assets call failed on a malformed record (it
\* returned the empty list while the inventory is not empty), after
\* calculate_risk_scores had scored a non-empty inventory with no threat.
C24_Witness ==
    /\ op = "analyze_assets"
    /\ ret = <<>>
    /\ assets # <<>>
    /\ threats = <<>>
    /\ HasKey(results, "risk_scores")
    /\ DOMAIN results["risk_scores"] # {}

\* C25: a call of analyze_assets appends every asset its input derives,
\* whether or not the inventory already holds the same entries from an
\* earlier call with that input, and returns the whole inventory; a call
\* of identify_threats does the same with the threats and the threat list.
C25_NoDeduplication ==
    [][ /\ \A sr \in AssetScanResults :
              (op' = "analyze_assets" /\ analyze_assets(sr)) =>
                  /\ assets' = assets \o AnalyzeRun(sr).new
                  /\ ret' = assets'
        /\ \A sr \in ThreatScanResults :
              (op' = "identify_threats" /\ identify_threats(sr)) =>
                  /\ threats' = threats \o IdentifyRun(assets, sr).val
                  /\ ret' = threats' ]_vars

\* C26: the affected_assets of a threat are fixed when the threat is made:
\* no step changes the affected_assets of a threat that exists, so an
\* analyze_assets call adds no asset to them; the threats a call of
\* identify_threats makes while the inventory is empty have empty
\* affected_assets; and scores computed while every threat has empty
\* affected_assets are the base scores, with no threat contribution.
C26_SnapshotLinks ==
    [][ /\ \A k \in DOMAIN threats :
              /\ k \in DOMAIN threats'
              /\ threats'[k].affected_assets = threats[k].affected_assets
        /\ (op' = "identify_threats" /\ assets = <<>>) =>
              \A k \in (Len(threats) + 1)..Len(threats') :
                  threats'[k].affected_assets = <<>>
        /\ (/\ op' = "calculate_risk_scores"
             /\ \A k \in DOMAIN threats : threats[k].affected_assets = <<>>) =>
              \A i \in DOMAIN assets :
                  ret'[assets[i].name] = BaseScoreOf(assets[i]) ]_vars

\* C26 witness: scores were computed for an inventory holding an asset that
\* runs http while the threat "Vulnerability in http", made before that
\* asset was added, still has empty affected_assets.
C26_Witness ==
    /\ op = "calculate_risk_scores"
    /\ \E i \in DOMAIN assets : assets[i].services = <<"http">>
    /\ threats # <<>>
    /\ \A k \in DOMAIN threats :
          /\ threats[k].name = "Vulnerability in http"
          /\ threats[k].affected_assets = <<>>

\* C27: every asset of the inventory has value >= 8 and exposed = true, and
\* every entry of the risk-score mapping, as returned by
\* calculate_risk_scores and as stored, is exactly 100, whatever threats
\* exist.
C27_EveryScoreHundred ==
    /\ \A i \in DOMAIN assets : assets[i].value >= 8 /\ assets[i].exposed
    /\ HasKey(results, "risk_scores") =>
          \A n \in DOMAIN results["risk_scores"] :
              results["risk_scores"][n] = 100 * ScoreScale
    /\ op = "calculate_risk_scores" =>
          /\ DOMAIN ret = AssetNames
          /\ \A n \in DOMAIN ret : ret[n] = 100 * ScoreScale

\* C27 witness: scores were computed for an inventory holding an asset of
\* value 8 that a threat names and an asset of value 10 that no threat
\* names.
C27_Witness ==
    /\ op = "calculate_risk_scores"
    /\ \E i \in DOMAIN assets :
          /\ assets[i].value = 8
          /\ \E k \in DOMAIN threats :
                assets[i].name \in Range(threats[k].affected_assets)
    /\ \E i \in DOMAIN assets :
          /\ assets[i].value = 10
          /\ \A k \in DOMAIN threats :
                assets[i].name \notin Range(threats[k].affected_assets)

\* C28: when calculate_risk_scores has returned, the mapping has exactly
\* one entry for each distinct asset name, however many assets carry that
\* name, and the threat score of every asset counts likelihood*impact once
\* for each threat that lists the asset's name, however often the threat
\* lists it.
C28_DuplicateNames ==
    op = "calculate_risk_scores" =>
        /\ DOMAIN ret = AssetNames
        /\ \A i \in DOMAIN assets :
              /\ ThreatScore(assets[i], threats) = SumOfProducts(assets[i].name, 1)
              /\ ret[assets[i].name] = ScoreOf(assets[i])

\* C28 witness: scores were computed for an inventory of two assets with
\* one name, which a threat lists twice; the mapping has one entry.
C28_Witness ==
    /\ op = "calculate_risk_scores"
    /\ Len(assets) = 2
    /\ assets[1].name = assets[2].name
    /\ \E k \in DOMAIN threats :
          threats[k].affected_assets = <<assets[1].name, assets[1].name>>
    /\ Cardinality(DOMAIN ret) = 1

\* the names of the assets a new threat of the given name is linked to
LinkedNames(threat_name) ==
    LET Linked(a) == IF threat_name = "WAF Bypass Potential"
                     THEN AssetTypeValue[a.type] = "web_server"
                     ELSE \E j \in DOMAIN a.services :
                              "Vulnerability in " \o a.services[j] = threat_name
        linked == SelectSeq(assets, Linked)
    IN  [i \in DOMAIN linked |-> linked[i].name]

\* C29: a call of analyze_assets that fails on a malformed record returns
\* the empty list and leaves the assets classified before that record in
\* the inventory; a failing call of identify_threats returns the empty
\* list and leaves the threats appended before the failure in the threat
\* list.  Later calls work on the whole inventory, whatever call left an
\* asset there: identify_threats links its threats to every matching
\* asset, calculate_risk_scores scores every asset name, and
\* generate_attack_surface_report lists every asset of value >= 8.
C29_FailingCallNotAtomic ==
    [][ /\ \A sr \in PipelineAssetInputs :
              (/\ op' = "analyze_assets"
               /\ analyze_assets(sr)
               /\ AnalyzeRun(sr).raised) =>
                  /\ ret' = <<>>
                  /\ assets' = assets \o AnalyzeRun(sr).new
        /\ \A sr \in PipelineThreatInputs :
              (/\ op' = "identify_threats"
               /\ identify_threats(sr)
               /\ IdentifyRun(assets, sr).raised) =>
                  /\ ret' = <<>>
                  /\ threats' = threats \o IdentifyRun(assets, sr).val
        /\ op' = "identify_threats" =>
              \A k \in (Len(threats) + 1)..Len(threats') :
                  threats'[k].affected_assets = LinkedNames(threats'[k].name)
        /\ op' = "calculate_risk_scores" => DOMAIN ret' = AssetNames
        /\ op' = "generate_attack_surface_report" =>
              Len(ret'.critical_assets)
                  = Cardinality({ i \in DOMAIN assets : assets[i].value >= 8 })
      ]_vars

\* C29 witness: the report was made after an analyze_assets call and an
\* identify_threats call that both failed mid-batch (neither list was ever
\* stored under results): the asset and the threat they left are there,
\* the threat names the asset, the asset has a score and is in the report.
C29_Witness ==
    /\ op = "generate_attack_surface_report"
    /\ ~HasKey(results, "assets")
    /\ ~HasKey(results, "threats")
    /\ Len(assets) = 1
    /\ Len(threats) = 1
    /\ threats[1].affected_assets = <<assets[1].name>>
    /\ HasKey(results, "risk_scores")
    /\ DOMAIN results["risk_scores"] = {assets[1].name}
    /\ Len(ret.critical_assets) = 1

\* C30: after every step, every key of the stored risk_scores mapping is
\* the name of an asset of the inventory; after a step of
\* calculate_risk_scores the keys of the stored and of the returned mapping
\* are exactly the distinct asset names; and a step of any other operation
\* leaves the stored mapping as it was, so that an asset added by it has no
\* score until calculate_risk_scores is called again.
C30_ScoreKeys ==
    [][ /\ HasKey(results', "risk_scores") =>
              DOMAIN results'["risk_scores"] \subseteq AssetNames'
        /\ op' = "calculate_risk_scores" =>
              /\ DOMAIN results'["risk_scores"] = AssetNames'
              /\ DOMAIN ret' = AssetNames'
        /\ op' # "calculate_risk_scores" =>
              /\ HasKey(results', "risk_scores") <=> HasKey(results, "risk_scores")
              /\ HasKey(results, "risk_scores") =>
                    results'["risk_scores"] = results["risk_scores"] ]_vars

\* C30 witness: analyze_assets has added an asset under a new name after
\* scores were computed for a non-empty inventory: the stored mapping has
\* scores, and none for the new name.
C30_Witness ==
    /\ op = "analyze_assets"
    /\ HasKey(results, "risk_scores")
    /\ DOMAIN results["risk_scores"] # {}
    /\ DOMAIN results["risk_scores"] # AssetNames
    /\ assets[Len(assets)].name \notin DOMAIN results["risk_scores"]

====
